---- MODULE Spec2Model ----
(***************************************************************************)
(* Model of model/model_training/custom_datasets/formatting.py:            *)
(* the DatasetEntry record (validators, system_tag, get_formatted, the     *)
(* alternate constructor) and the free formatting functions.               *)
(*                                                                         *)
(* Python values are tagged records ([type |-> "str", v |-> ...]) so that  *)
(* None, str, int, float and list stay distinguishable, as the code's      *)
(* `is not None` tests and `case (str(), None)` patterns need.  A string   *)
(* is a sequence of atoms; an atom is either the newline "\n" or a chunk   *)
(* of text without a newline.  Floats are counted in hundredths.           *)
(***************************************************************************)
EXTENDS Integers, Sequences, FiniteSets, TLC

VARIABLES entry, constructed, op, args, outcome

vars == <<entry, constructed, op, args, outcome>>

(* ------------------------------ bounds --------------------------------- *)

\* size of the largest constructor call: the turns of both lists, plus two for
\* every metadata keyword passed
MaxSize == 5

\* longest flat list handed to the legacy functions
MaxPairs == 3

(* --------------------------- Python values ----------------------------- *)

NoneV == [type |-> "NoneType"]

\* a keyword argument that the caller did not pass
Missing == [type |-> "Missing"]

StrV(s) == [type |-> "str", v |-> s]

IntV(i) == [type |-> "int", v |-> i]

FloatV(h) == [type |-> "float", v |-> h]

LangV(l) == [type |-> "Language", v |-> l]

ListV(xs) == [type |-> "list", v |-> xs]

\* how a call ends: a returned value or a raised exception; self is the
\* receiver object as the call leaves it
Return(value, self) == [kind |-> "return", ret |-> value, self |-> self]

Raise(exc, self) == [kind |-> "raise", exc |-> exc, self |-> self]

NoEntry == [type |-> "NoEntry"]

QA_SPECIAL_TOKENS ==
  [Question    |-> "<|prompter|>",
   Answer      |-> "<|assistant|>",
   System      |-> "<|system|>",
   StartPrefix |-> "<|prefix_begin|>",
   EndPrefix   |-> "<|prefix_end|>"]

Modes == {"rl", "sft", "rm"}

\* format_pairs called without a mode (mode=None)
NoMode == "None"

Languages == {"en"}

\* the keys of a DatasetEntry's __dict__, in field declaration order
FieldOrder ==
  <<"questions", "answers", "context", "lang", "length", "quality", "humor", "creativity">>

(* ------------------------- string conversions -------------------------- *)

\* the ties (in hundredths) that round(x, 1) rounds up on IEEE doubles
TiesRoundedUp == {5, 45, 55, 65, 75}

\* round(v, 1) of a float given in hundredths
round1(h) ==
  LET lo == (h \div 10) * 10
      r  == h % 10
  IN  IF r < 5 THEN lo
      ELSE IF r > 5 THEN lo + 10
      ELSE IF h \in TiesRoundedUp THEN lo + 10 ELSE lo

\* repr of a non-negative float given in hundredths: 30 -> "0.3", 46 -> "0.46"
FloatRepr(h) ==
  IF h % 10 = 0
    THEN ToString(h \div 100) \o "." \o ToString((h % 100) \div 10)
    ELSE ToString(h \div 100) \o "." \o ToString((h % 100) \div 10) \o ToString(h % 10)

\* str(v)
str(v) ==
  CASE v.type = "str"      -> v.v
    [] v.type = "int"      -> <<ToString(v.v)>>
    [] v.type = "float"    -> <<FloatRepr(v.v)>>
    [] v.type = "Language" -> <<v.v>>

\* s.replace("\n", "")
replace_newline(s) == SelectSeq(s, LAMBDA c : c # "\n")

RECURSIVE join(_, _)
\* sep.join(parts)
join(sep, parts) ==
  IF parts = <<>> THEN <<>>
  ELSE IF Len(parts) = 1 THEN parts[1]
  ELSE parts[1] \o sep \o join(sep, Tail(parts))

format_system_prefix(prefix, eos_token) ==
  <<QA_SPECIAL_TOKENS.System>> \o prefix \o <<eos_token>>

(* ------------------------------ validators ----------------------------- *)

\* @validator("length")
above_zero(v) ==
  IF v # NoneV /\ v.v < 0
    THEN Raise("ValueError", NoEntry)
    ELSE Return(v, NoEntry)

\* @validator("quality", "humor", "creativity"); round(None, 1) is a TypeError
between_0_1(v) ==
  IF v # NoneV /\ ~(0 <= v.v /\ v.v <= 100)
    THEN Raise("ValueError", NoEntry)
    ELSE IF v = NoneV
      THEN Raise("TypeError", NoEntry)
      ELSE Return(FloatV(round1(v.v)), NoEntry)

\* a field without a validator of this module
no_validator(v) == Return(v, NoEntry)

\* the field's value when the keyword is not passed: pydantic then skips the
\* field's validator, while it runs it on every value passed, None included
not_passed == Return(NoneV, NoEntry)

\* DatasetEntry(**kwargs): a ValueError or TypeError of any validator makes
\* the construction fail with a ValidationError
DatasetEntry(kwargs) ==
  LET context    == IF kwargs.context = Missing THEN not_passed
                                                ELSE no_validator(kwargs.context)
      lang       == IF kwargs.lang = Missing THEN not_passed
                                             ELSE no_validator(kwargs.lang)
      length     == IF kwargs.length = Missing THEN not_passed
                                               ELSE above_zero(kwargs.length)
      quality    == IF kwargs.quality = Missing THEN not_passed
                                                ELSE between_0_1(kwargs.quality)
      humor      == IF kwargs.humor = Missing THEN not_passed
                                              ELSE between_0_1(kwargs.humor)
      creativity == IF kwargs.creativity = Missing THEN not_passed
                                                   ELSE between_0_1(kwargs.creativity)
  IN  IF \E r \in {context, lang, length, quality, humor, creativity} : r.kind = "raise"
        THEN Raise("ValidationError", NoEntry)
        ELSE LET self == [type       |-> "DatasetEntry",
                          questions  |-> kwargs.questions,
                          answers    |-> kwargs.answers,
                          context    |-> context.ret,
                          lang       |-> lang.ret,
                          length     |-> length.ret,
                          quality    |-> quality.ret,
                          humor      |-> humor.ret,
                          creativity |-> creativity.ret]
             IN  Return(self, self)

(* ------------------------------ system_tag ----------------------------- *)

\* self.__dict__.items()
dict_items(self) ==
  [i \in 1..Len(FieldOrder) |-> <<FieldOrder[i], self[FieldOrder[i]]>>]

\* relevant_system_infos testing the truth of v (0 and 0.0 are false) instead
\* of `v is not None`
relevant_system_infos_truthy(self) ==
  SelectSeq(dict_items(self),
            LAMBDA kv : /\ kv[1] \notin {"questions", "answers"}
                        /\ kv[2] # NoneV
                        /\ kv[2].type \in {"int", "float"} => kv[2].v # 0
                        /\ replace_newline(str(kv[2])) # <<>>)

\* the list comprehension of system_tag
relevant_system_infos(self) ==
  SelectSeq(dict_items(self),
            LAMBDA kv : /\ kv[1] \notin {"questions", "answers"}
                        /\ kv[2] # NoneV
                        /\ replace_newline(str(kv[2])) # <<>>)

\* the orders random.shuffle can leave a list of n elements in
ShuffleOrders(n) ==
  {f \in [1..n -> 1..n] : \A i, j \in 1..n : f[i] = f[j] => i = j}

\* random.shuffle(x), the random source having drawn perm
shuffle(x, perm) == [i \in 1..Len(x) |-> x[perm[i]]]

\* f"{k}: {v}"
key_value(kv) == <<kv[1], ": ">> \o str(kv[2])

\* system_tag storing the newline-free context back into self
system_tag_strips_context(self, eos_token, perm) ==
  LET infos == relevant_system_infos(self)
      me    == IF self.context = NoneV
                 THEN self
                 ELSE [self EXCEPT !.context = StrV(replace_newline(self.context.v))]
  IN  IF Len(infos) > 0
        THEN LET shuffled == shuffle(infos, perm)
                 system_tag_key_values ==
                   join(<<"\n">>, [i \in 1..Len(shuffled) |-> key_value(shuffled[i])])
             IN  Return(StrV(<<QA_SPECIAL_TOKENS.System>> \o system_tag_key_values
                               \o <<"\n", eos_token>>),
                        me)
        ELSE Return(NoneV, me)

\* DatasetEntry.system_tag: the shuffle acts on the freshly built list, self
\* is only read
system_tag(self, eos_token, perm) ==
  LET infos == relevant_system_infos(self)
  IN  IF Len(infos) > 0
        THEN LET shuffled == shuffle(infos, perm)
                 system_tag_key_values ==
                   join(<<"\n">>, [i \in 1..Len(shuffled) |-> key_value(shuffled[i])])
             IN  Return(StrV(<<QA_SPECIAL_TOKENS.System>> \o system_tag_key_values
                               \o <<"\n", eos_token>>),
                        self)
        ELSE Return(NoneV, self)

(* ----------------------------- get_formatted --------------------------- *)

\* itertools.zip_longest(questions, answers): the shorter list is filled with None
zip_longest(questions, answers) ==
  LET n == IF Len(questions) >= Len(answers) THEN Len(questions) ELSE Len(answers)
  IN  [i \in 1..n |->
        <<IF i <= Len(questions) THEN StrV(questions[i]) ELSE NoneV,
          IF i <= Len(answers) THEN StrV(answers[i]) ELSE NoneV>>]

RECURSIVE format_turns_break(_, _, _)
\* format_turns with a break after the first unanswered question
format_turns_break(turns, qa_list, eos_token) ==
  IF turns = <<>>
    THEN Return(ListV(qa_list), NoEntry)
    ELSE LET q == turns[1][1]
             a == turns[1][2]
         IN  CASE q.type = "str" /\ a.type = "str" ->
                    format_turns_break(Tail(turns),
                                 qa_list \o <<<<QA_SPECIAL_TOKENS.Question>> \o q.v \o <<eos_token>>,
                                              <<QA_SPECIAL_TOKENS.Answer>> \o a.v \o <<eos_token>>>>,
                                 eos_token)
               [] q.type = "str" /\ a = NoneV ->
                    Return(ListV(Append(qa_list,
                                        <<QA_SPECIAL_TOKENS.Question>> \o q.v \o <<eos_token>>)),
                           NoEntry)
               [] q = NoneV /\ a = NoneV ->
                    Return(ListV(qa_list), NoEntry)
               [] q = NoneV /\ a.type = "str" ->
                    Raise("ValueError", NoEntry)

RECURSIVE format_turns_skip_orphan(_, _, _)
\* format_turns with an answer that has no question skipped instead of refused
format_turns_skip_orphan(turns, qa_list, eos_token) ==
  IF turns = <<>>
    THEN Return(ListV(qa_list), NoEntry)
    ELSE LET q == turns[1][1]
             a == turns[1][2]
         IN  CASE q.type = "str" /\ a.type = "str" ->
                    format_turns_skip_orphan(Tail(turns),
                                 qa_list \o <<<<QA_SPECIAL_TOKENS.Question>> \o q.v \o <<eos_token>>,
                                              <<QA_SPECIAL_TOKENS.Answer>> \o a.v \o <<eos_token>>>>,
                                 eos_token)
               [] q.type = "str" /\ a = NoneV ->
                    format_turns_skip_orphan(Tail(turns),
                                 Append(qa_list, <<QA_SPECIAL_TOKENS.Question>> \o q.v \o <<eos_token>>),
                                 eos_token)
               [] q = NoneV /\ a = NoneV ->
                    Return(ListV(qa_list), NoEntry)
               [] q = NoneV /\ a.type = "str" ->
                    format_turns_skip_orphan(Tail(turns), qa_list, eos_token)

RECURSIVE format_turns(_, _, _)
\* the for / match loop of get_formatted over the zipped turns
format_turns(turns, qa_list, eos_token) ==
  IF turns = <<>>
    THEN Return(ListV(qa_list), NoEntry)
    ELSE LET q == turns[1][1]
             a == turns[1][2]
         IN  CASE q.type = "str" /\ a.type = "str" ->
                    format_turns(Tail(turns),
                                 qa_list \o <<<<QA_SPECIAL_TOKENS.Question>> \o q.v \o <<eos_token>>,
                                              <<QA_SPECIAL_TOKENS.Answer>> \o a.v \o <<eos_token>>>>,
                                 eos_token)
               [] q.type = "str" /\ a = NoneV ->
                    format_turns(Tail(turns),
                                 Append(qa_list, <<QA_SPECIAL_TOKENS.Question>> \o q.v \o <<eos_token>>),
                                 eos_token)
               [] q = NoneV /\ a = NoneV ->
                    Return(ListV(qa_list), NoEntry)
               [] q = NoneV /\ a.type = "str" ->
                    Raise("ValueError", NoEntry)

\* rl_prompt taking the last question (self.questions[-1]) for the first
rl_prompt_last_question(self, tag) ==
  IF self.questions = <<>>
    THEN Raise("IndexError", self)
    ELSE IF tag # NoneV
      THEN Return(StrV(tag.v \o <<QA_SPECIAL_TOKENS.Question>>
                         \o self.questions[Len(self.questions)]
                         \o <<QA_SPECIAL_TOKENS.Answer>>), self)
      ELSE Return(StrV(<<QA_SPECIAL_TOKENS.Question>>
                         \o self.questions[Len(self.questions)]
                         \o <<QA_SPECIAL_TOKENS.Answer>>), self)

\* the Mode.rl branch: self.questions[0] between the Question and Answer tags
rl_prompt(self, tag) ==
  IF self.questions = <<>>
    THEN Raise("IndexError", self)
    ELSE IF tag # NoneV
      THEN Return(StrV(tag.v \o <<QA_SPECIAL_TOKENS.Question>> \o self.questions[1]
                         \o <<QA_SPECIAL_TOKENS.Answer>>), self)
      ELSE Return(StrV(<<QA_SPECIAL_TOKENS.Question>> \o self.questions[1]
                         \o <<QA_SPECIAL_TOKENS.Answer>>), self)

\* get_formatted with the Mode.rm refusal moved in front of the walk
get_formatted_rm_first(self, mode, eos_token, perm) ==
  LET st   == system_tag(self, eos_token, perm)
      tag  == st.ret
      me   == st.self
  IN  IF mode = "rl"
        THEN rl_prompt(me, tag)
        ELSE IF mode = "rm"
          THEN Raise("NotImplementedError", me)
          ELSE LET qa_list == IF tag # NoneV THEN <<tag.v>> ELSE <<>>
                   walked  == format_turns(zip_longest(me.questions, me.answers),
                                           qa_list, eos_token)
               IN  IF walked.kind = "raise"
                     THEN Raise(walked.exc, me)
                     ELSE Return(walked.ret, me)

\* DatasetEntry.get_formatted
get_formatted(self, mode, eos_token, perm) ==
  LET st   == system_tag(self, eos_token, perm)
      tag  == st.ret
      me   == st.self
  IN  IF mode = "rl"
        THEN rl_prompt(me, tag)
        ELSE LET qa_list == IF tag # NoneV THEN <<tag.v>> ELSE <<>>
                 walked  == format_turns(zip_longest(me.questions, me.answers),
                                         qa_list, eos_token)
             IN  IF walked.kind = "raise"
                   THEN Raise(walked.exc, me)
                   ELSE IF mode = "sft"
                     THEN Return(walked.ret, me)
                     ELSE IF mode = "rm"
                       THEN Raise("NotImplementedError", me)
                       ELSE Return(NoneV, me)

\* DatasetEntry.create_from_prompter_assistant_interplay: the exception is
\* built and dropped, the function falls off its end
create_from_prompter_assistant_interplay(qa) == Return(NoneV, NoEntry)

(* ---------------------------- free functions --------------------------- *)

\* conversations with the parity taken of the 1-based position
conversations_parity_shifted(pairs, eos_token) ==
  [i \in 1..Len(pairs) |->
     <<IF i % 2 = 0 THEN QA_SPECIAL_TOKENS.Question ELSE QA_SPECIAL_TOKENS.Answer>>
       \o pairs[i] \o <<eos_token>>]

\* the legacy list comprehension of format_pairs
conversations(pairs, eos_token) ==
  [i \in 1..Len(pairs) |->
     <<IF (i - 1) % 2 = 0 THEN QA_SPECIAL_TOKENS.Question ELSE QA_SPECIAL_TOKENS.Answer>>
       \o pairs[i] \o <<eos_token>>]

\* format_pairs; a DatasetEntry has no len(), so the legacy path rejects it
format_pairs(pairs, eos_token, add_initial_reply_token, mode, perm) ==
  IF pairs.type = "DatasetEntry" /\ mode # NoMode
    THEN get_formatted(pairs, mode, eos_token, perm)
    ELSE IF pairs.type = "DatasetEntry"
      THEN Raise("TypeError", pairs)
      ELSE LET convs == conversations(pairs.v, eos_token)
           IN  IF add_initial_reply_token
                 THEN Return(ListV(Append(convs, <<QA_SPECIAL_TOKENS.Answer>>)), NoEntry)
                 ELSE Return(ListV(convs), NoEntry)

\* format_rl_text taking the last element (pairs[-1]) for the first
format_rl_text_last(pairs) ==
  IF pairs = <<>>
    THEN Raise("IndexError", NoEntry)
    ELSE Return(StrV(<<QA_SPECIAL_TOKENS.Question>> \o pairs[Len(pairs)]
                       \o <<QA_SPECIAL_TOKENS.Answer>>),
                NoEntry)

format_rl_text(pairs) ==
  IF pairs = <<>>
    THEN Raise("IndexError", NoEntry)
    ELSE Return(StrV(<<QA_SPECIAL_TOKENS.Question>> \o pairs[1] \o <<QA_SPECIAL_TOKENS.Answer>>),
                NoEntry)

format_reply(text, eos_token) ==
  Return(StrV(<<QA_SPECIAL_TOKENS.Answer>> \o text \o <<eos_token>>), NoEntry)

(* ------------------------------- inputs -------------------------------- *)

EosTokens == {"</s>", "<|endoftext|>"}

QuestionTexts == {<<>>, <<"q">>}

AnswerTexts == {<<>>, <<"a">>}

Lists(T, n) == UNION {[1..k -> T] : k \in 0..n}

ContextInputs == {Missing, NoneV, StrV(<<>>), StrV(<<"\n">>), StrV(<<"c", "\n", "d">>)}

LangInputs == {Missing} \cup {LangV(l) : l \in Languages}

LengthInputs == {Missing, NoneV, IntV(-1), IntV(0), IntV(7)}

QualityInputs == {Missing, NoneV, FloatV(-10), FloatV(0), FloatV(100), FloatV(110)}

HumorInputs == {Missing, FloatV(30), FloatV(101)}

CreativityInputs == {Missing, FloatV(-1), FloatV(75)}

MetaKeys == <<"context", "lang", "length", "quality", "humor", "creativity">>

NumSupplied(kwargs) == Cardinality({i \in 1..Len(MetaKeys) : kwargs[MetaKeys[i]] # Missing})

MetaInputs ==
  {m \in [context    : ContextInputs,
          lang       : LangInputs,
          length     : LengthInputs,
          quality    : QualityInputs,
          humor      : HumorInputs,
          creativity : CreativityInputs] : 2 * NumSupplied(m) <= MaxSize}

\* the questions and answers lists of at most n turns together
TurnInputs(n) ==
  {qa \in Lists(QuestionTexts, n) \X Lists(AnswerTexts, n) : Len(qa[1]) + Len(qa[2]) <= n}

\* the keyword arguments the constructor is called with
ConstructInputs ==
  UNION {{[questions  |-> qa[1],
           answers    |-> qa[2],
           context    |-> m.context,
           lang       |-> m.lang,
           length     |-> m.length,
           quality    |-> m.quality,
           humor      |-> m.humor,
           creativity |-> m.creativity] : qa \in TurnInputs(MaxSize - 2 * NumSupplied(m))}
         : m \in MetaInputs}

PairTexts == {<<"a">>, <<"b">>}

QaInputs == {<<>>, <<<<"prompter", "q">>>>}

(* ------------------------------- actions ------------------------------- *)

\* what the caller sees of a call
Seen(r) ==
  IF r.kind = "return" THEN [kind |-> "return", ret |-> r.ret]
                       ELSE [kind |-> "raise", exc |-> r.exc]

Init ==
  /\ entry = NoEntry
  /\ constructed = NoEntry
  /\ op = "init"
  /\ args = NoneV
  /\ outcome = [kind |-> "none"]

\* one raw example is constructed per behaviour
Construct ==
  /\ op = "init"
  /\ \E kwargs \in ConstructInputs :
       LET r == DatasetEntry(kwargs)
       IN  /\ entry' = r.self
           /\ constructed' = r.self
           /\ op' = "DatasetEntry"
           /\ args' = kwargs
           /\ outcome' = IF r.kind = "return" THEN [kind |-> "return"]
                                               ELSE [kind |-> "raise", exc |-> r.exc]

SystemTag ==
  /\ entry # NoEntry
  /\ \E eos_token \in EosTokens :
     \E perm \in ShuffleOrders(Len(relevant_system_infos(entry))) :
       LET r == system_tag(entry, eos_token, perm)
       IN  /\ entry' = r.self
           /\ op' = "system_tag"
           /\ args' = [eos_token |-> eos_token]
           /\ outcome' = Seen(r)
           /\ UNCHANGED constructed

GetFormatted ==
  /\ entry # NoEntry
  /\ \E mode \in Modes :
     \E eos_token \in EosTokens :
     \E perm \in ShuffleOrders(Len(relevant_system_infos(entry))) :
       LET r == get_formatted(entry, mode, eos_token, perm)
       IN  /\ entry' = r.self
           /\ op' = "get_formatted"
           /\ args' = [mode |-> mode, eos_token |-> eos_token]
           /\ outcome' = Seen(r)
           /\ UNCHANGED constructed

\* format_pairs on the entry, add_initial_reply_token left at its default
FormatPairsEntry ==
  /\ entry # NoEntry
  /\ \E mode \in Modes \cup {NoMode} :
     \E eos_token \in EosTokens :
     \E add_initial_reply_token \in {FALSE} :
     \E perm \in ShuffleOrders(Len(relevant_system_infos(entry))) :
       LET r == format_pairs(entry, eos_token, add_initial_reply_token, mode, perm)
       IN  /\ entry' = r.self
           /\ op' = "format_pairs"
           /\ args' = [pairs |-> entry, mode |-> mode, eos_token |-> eos_token,
                       add_initial_reply_token |-> add_initial_reply_token]
           /\ outcome' = Seen(r)
           /\ UNCHANGED constructed

FormatPairsList ==
  \E pairs \in Lists(PairTexts, MaxPairs) :
  \E mode \in Modes \cup {NoMode} :
  \E eos_token \in EosTokens :
  \E add_initial_reply_token \in BOOLEAN :
    LET r == format_pairs(ListV(pairs), eos_token, add_initial_reply_token, mode, <<>>)
    IN  /\ op' = "format_pairs"
        /\ args' = [pairs |-> ListV(pairs), mode |-> mode, eos_token |-> eos_token,
                    add_initial_reply_token |-> add_initial_reply_token]
        /\ outcome' = Seen(r)
        /\ UNCHANGED <<entry, constructed>>

FormatRlText ==
  \E pairs \in Lists(QuestionTexts, MaxPairs) :
    /\ op' = "format_rl_text"
    /\ args' = [pairs |-> ListV(pairs)]
    /\ outcome' = Seen(format_rl_text(pairs))
    /\ UNCHANGED <<entry, constructed>>

FormatReply ==
  \E text \in AnswerTexts :
  \E eos_token \in EosTokens :
    /\ op' = "format_reply"
    /\ args' = [text |-> text, eos_token |-> eos_token]
    /\ outcome' = Seen(format_reply(text, eos_token))
    /\ UNCHANGED <<entry, constructed>>

CreateFromInterplay ==
  \E qa \in QaInputs :
    /\ op' = "create_from_prompter_assistant_interplay"
    /\ args' = [qa |-> qa]
    /\ outcome' = Seen(create_from_prompter_assistant_interplay(qa))
    /\ UNCHANGED <<entry, constructed>>

Next ==
  \/ Construct
  \/ SystemTag
  \/ GetFormatted
  \/ FormatPairsEntry
  \/ CreateFromInterplay

Spec == Init /\ [][Next]_vars

\* the legacy functions take no DatasetEntry and share no state with one
LegacyNext ==
  \/ FormatPairsList
  \/ FormatRlText
  \/ FormatReply

LegacySpec == Init /\ [][LegacyNext]_vars

(* ------------------------- vocabulary of the claims -------------------- *)

QuestionTag == QA_SPECIAL_TOKENS.Question

AnswerTag == QA_SPECIAL_TOKENS.Answer

SystemTagToken == QA_SPECIAL_TOKENS.System

\* a metadata field that is set: not null, and not blank once newlines are removed
FieldIsSet(v) ==
  /\ v # NoneV
  /\ v.type = "str" => \E i \in 1..Len(v.v) : v.v[i] # "\n"

SetKeys(e) == {i \in 1..Len(MetaKeys) : FieldIsSet(e[MetaKeys[i]])}

NoMetadata(e) == \A i \in 1..Len(MetaKeys) : e[MetaKeys[i]] = NoneV

Rendered(mode) == op = "get_formatted" /\ args.mode = mode

\* the rendered sequence without its leading system tag element
Turns == IF SetKeys(entry) # {} THEN Tail(outcome.ret.v) ELSE outcome.ret.v

QuestionElement(i) == <<QuestionTag>> \o entry.questions[i] \o <<args.eos_token>>

AnswerElement(i) == <<AnswerTag>> \o entry.answers[i] \o <<args.eos_token>>

\* the Question/Answer pairs of the first n positions, in order
PairsPrefix(n) ==
  [i \in 1..(2 * n) |-> IF i % 2 = 1 THEN QuestionElement((i + 1) \div 2)
                                     ELSE AnswerElement(i \div 2)]

(* -------------------------------- C1 ----------------------------------- *)

\* C1 as stated: a supervised-fine-tuning render of an entry with at least as
\* many questions as answers is the answered pairs followed by at most one
\* trailing question; later questions never appear.
C1_StopsAtFirstUnansweredQuestion ==
  (Rendered("sft") /\ outcome.kind = "return"
     /\ Len(entry.questions) >= Len(entry.answers))
  => LET n == Len(entry.answers)
     IN  Turns = PairsPrefix(n) \o (IF Len(entry.questions) > n
                                      THEN <<QuestionElement(n + 1)>> ELSE <<>>)

\* C1 amended: a supervised-fine-tuning render of an entry with at least as
\* many questions as answers is the answered pairs in order followed by one
\* Question element for EVERY unanswered question, in order; the walk does
\* not stop at the first unanswered question.
C1_EveryUnansweredQuestionIsAppended ==
  (Rendered("sft") /\ outcome.kind = "return"
     /\ Len(entry.questions) >= Len(entry.answers))
  => LET n == Len(entry.answers)
     IN  Turns = PairsPrefix(n)
                   \o [i \in 1..(Len(entry.questions) - n) |-> QuestionElement(n + i)]

C1_Witness ==
  /\ Rendered("sft")
  /\ outcome.kind = "return"
  /\ Len(entry.answers) >= 1
  /\ Len(entry.questions) >= Len(entry.answers) + 2
  /\ Len(Turns) = Len(entry.questions) + Len(entry.answers)

(* -------------------------------- C2 ----------------------------------- *)

\* C2 as stated: a reward-model render fails with NotImplemented for every
\* entry, also one with more answers than questions.
C2_RewardModelAlwaysNotImplemented ==
  Rendered("rm") => outcome = [kind |-> "raise", exc |-> "NotImplementedError"]

\* C2 amended: a reward-model render never returns a value; it fails with
\* NotImplemented when the entry has at most as many answers as questions, and
\* with the structural error (answer without a question) when it has more
\* answers than questions.
C2_RewardModelNeverReturns ==
  Rendered("rm")
  => /\ outcome.kind = "raise"
     /\ Len(entry.answers) <= Len(entry.questions) => outcome.exc = "NotImplementedError"
     /\ Len(entry.answers) > Len(entry.questions) => outcome.exc = "ValueError"

C2_Witness ==
  /\ Rendered("rm")
  /\ Len(entry.answers) > Len(entry.questions)
  /\ outcome = [kind |-> "raise", exc |-> "ValueError"]

(* -------------------------------- C3 ----------------------------------- *)

\* C3: a supervised-fine-tuning render fails with the structural error exactly
\* when some position holds an answer but no question (more answers than
\* questions), returning nothing; otherwise it returns a sequence.
C3_StructuralErrorIffAnswerWithoutQuestion ==
  Rendered("sft")
  => LET orphan == \E i \in 1..Len(entry.answers) : i > Len(entry.questions)
     IN  /\ orphan <=> outcome = [kind |-> "raise", exc |-> "ValueError"]
         /\ ~orphan <=> (outcome.kind = "return" /\ outcome.ret.type = "list")

C3_Witness ==
  /\ Rendered("sft")
  /\ Len(entry.questions) >= 1
  /\ Len(entry.answers) > Len(entry.questions)
  /\ outcome = [kind |-> "raise", exc |-> "ValueError"]

(* -------------------------------- C4 ----------------------------------- *)

\* C4: a reinforcement-learning render of an entry with at least one question
\* returns one string: the system tag (only when a metadata field is set),
\* then the Question tag, questions[0] and the Answer tag with nothing after
\* it; the later questions and the answers do not matter (the entry cut down
\* to its first question renders the same), and without metadata the string is
\* exactly Question tag + questions[0] + Answer tag.
C4_RlPromptIsFirstQuestionOnly ==
  (Rendered("rl") /\ entry.questions # <<>>)
  => LET first  == [entry EXCEPT !.questions = <<entry.questions[1]>>, !.answers = <<>>]
         prompt == <<QuestionTag>> \o entry.questions[1] \o <<AnswerTag>>
     IN  /\ outcome.kind = "return"
         /\ outcome.ret.type = "str"
         /\ LET text == outcome.ret.v
                n    == Len(text) - Len(prompt)
            IN  /\ n >= 0
                /\ SubSeq(text, n + 1, Len(text)) = prompt
                /\ SetKeys(entry) = {} => n = 0
                /\ SetKeys(entry) # {} => /\ n > 0
                                          /\ text[1] = SystemTagToken
                                          /\ text[n] = args.eos_token
                /\ NoMetadata(entry) => text = prompt
         /\ \E p \in ShuffleOrders(Cardinality(SetKeys(entry))) :
              outcome = Seen(get_formatted(first, "rl", args.eos_token, p))

C4_Witness ==
  /\ Rendered("rl")
  /\ Len(entry.questions) >= 2
  /\ entry.questions[1] # entry.questions[2]
  /\ entry.answers # <<>>
  /\ SetKeys(entry) # {}
  /\ outcome.kind = "return"

(* -------------------------------- C5 ----------------------------------- *)

RECURSIVE LinesLength(_, _)
\* the atoms the lines of the set fields among keys take, newline included
LinesLength(e, keys) ==
  IF keys = <<>> THEN 0
  ELSE (IF FieldIsSet(e[keys[1]]) THEN 3 + Len(str(e[keys[1]])) ELSE 0)
       + LinesLength(e, Tail(keys))

\* the positions of text where a line "k: ..." starts
LineStarts(text, k) ==
  {i \in 2..(Len(text) - 1) :
     /\ text[i] = k
     /\ text[i + 1] = ": "
     /\ text[i - 1] \in {SystemTagToken, "\n"}}

\* C5: system_tag returns nothing exactly when no metadata field is set (each
\* is null or blank once newlines are removed); otherwise it returns a block
\* that starts with the System tag, ends with the eos marker, and holds the
\* line "field: value" once for every set field and no line for questions,
\* answers or an unset field, in whatever order the shuffle leaves them.
C5_SystemTagListsEverySetFieldOnce ==
  op = "system_tag"
  => /\ outcome.kind = "return"
     /\ outcome.ret = NoneV <=> SetKeys(entry) = {}
     /\ outcome.ret # NoneV =>
          LET text == outcome.ret.v
          IN  /\ outcome.ret.type = "str"
              /\ text[1] = SystemTagToken
              /\ text[Len(text)] = args.eos_token
              /\ Len(text) = 2 + LinesLength(entry, MetaKeys)
              /\ \A j \in 1..Len(FieldOrder) :
                   LET k == FieldOrder[j]
                   IN  IF k \notin {"questions", "answers"} /\ FieldIsSet(entry[k])
                         THEN /\ Cardinality(LineStarts(text, k)) = 1
                              /\ \A i \in LineStarts(text, k) :
                                   LET value == str(entry[k])
                                   IN  /\ i + 2 + Len(value) < Len(text)
                                       /\ SubSeq(text, i + 2, i + 1 + Len(value)) = value
                                       /\ text[i + 2 + Len(value)] = "\n"
                         ELSE LineStarts(text, k) = {}

C5_Witness ==
  /\ op = "system_tag"
  /\ outcome.ret # NoneV
  /\ Cardinality(SetKeys(entry)) >= 2
  /\ entry.length = IntV(0)
  /\ outcome.ret.v[2] # "length"

C5_WitnessBlank ==
  /\ op = "system_tag"
  /\ outcome.ret = NoneV
  /\ entry.context = StrV(<<"\n">>)

(* -------------------------------- C6 ----------------------------------- *)

\* C6: no system_tag or render call, returning or failing, changes the entry:
\* its fields stay as constructed, and what a call gives is what the same call
\* gives on the entry as constructed (up to the order of the system tag lines).
C6_RenderingNeverChangesTheEntry ==
  entry # NoEntry
  => /\ entry = constructed
     /\ op = "get_formatted" =>
          \E p \in ShuffleOrders(Cardinality(SetKeys(constructed))) :
            outcome = Seen(get_formatted(constructed, args.mode, args.eos_token, p))
     /\ op = "system_tag" =>
          \E p \in ShuffleOrders(Cardinality(SetKeys(constructed))) :
            outcome = Seen(system_tag(constructed, args.eos_token, p))

C6_Witness ==
  /\ entry # NoEntry
  /\ Rendered("sft")
  /\ outcome = [kind |-> "raise", exc |-> "ValueError"]
  /\ entry.context = StrV(<<"c", "\n", "d">>)
  /\ entry = constructed

(* -------------------------------- C7 ----------------------------------- *)

\* C7: format_pairs on a flat list returns one string per element in order,
\* element i (from 0) being the Question tag when i is even and the Answer tag
\* when i is odd, then the element and the eos marker; with
\* add_initial_reply_token one more element, the bare Answer tag, ends it.
C7_LegacyPairsAlternateByParity ==
  (op = "format_pairs" /\ args.pairs.type = "list")
  => LET input == args.pairs.v
         n     == Len(input)
     IN  /\ outcome.kind = "return"
         /\ outcome.ret.type = "list"
         /\ Len(outcome.ret.v) = (IF args.add_initial_reply_token THEN n + 1 ELSE n)
         /\ \A i \in 0..(n - 1) :
              outcome.ret.v[i + 1] =
                <<IF i % 2 = 0 THEN QuestionTag ELSE AnswerTag>>
                  \o input[i + 1] \o <<args.eos_token>>
         /\ args.add_initial_reply_token => outcome.ret.v[n + 1] = <<AnswerTag>>

C7_Witness ==
  /\ op = "format_pairs"
  /\ args.pairs = ListV(<<<<"a">>, <<"b">>, <<"a">>>>)
  /\ args.add_initial_reply_token
  /\ Len(outcome.ret.v) = 4

(* -------------------------------- C8 ----------------------------------- *)

\* C8: for an entry without metadata and with at least one question, the
\* reinforcement-learning render, whatever the eos marker and the answers, is
\* what format_rl_text gives on the entry's questions.
C8_RlTextIsRlRenderWithoutMetadata ==
  (Rendered("rl") /\ NoMetadata(entry) /\ entry.questions # <<>>)
  => /\ outcome = Seen(format_rl_text(entry.questions))
     /\ outcome.ret.v = <<QuestionTag>> \o entry.questions[1] \o <<AnswerTag>>

C8_Witness ==
  /\ Rendered("rl")
  /\ NoMetadata(entry)
  /\ Len(entry.questions) >= 2
  /\ entry.questions[1] # entry.questions[Len(entry.questions)]
  /\ entry.answers # <<>>
  /\ outcome.kind = "return"

(* -------------------------------- C9 ----------------------------------- *)

BadLength(kw) == kw.type = "int" /\ kw.v < 0

BadLabel(kw) == kw.type = "float" /\ (kw.v < 0 \/ kw.v > 100)

\* C9 as stated: the construction fails (with a ValidationError) exactly when
\* a length below 0 or a quality, humor or creativity outside [0, 1] is passed;
\* otherwise it succeeds, and no entry holds such a value.
C9_ConstructFailsExactlyOnOutOfRange ==
  op = "DatasetEntry"
  => /\ outcome.kind = "raise" <=>
          \/ BadLength(args.length)
          \/ BadLabel(args.quality)
          \/ BadLabel(args.humor)
          \/ BadLabel(args.creativity)
     /\ outcome.kind = "raise" => outcome.exc = "ValidationError"
     /\ outcome.kind = "return" =>
          /\ ~BadLength(entry.length)
          /\ ~BadLabel(entry.quality)
          /\ ~BadLabel(entry.humor)
          /\ ~BadLabel(entry.creativity)

(* -------------------------------- C10 ---------------------------------- *)

\* C10 as stated: the alternate constructor fails with NotImplemented on every
\* call and never returns.
C10_InterplayConstructorAlwaysNotImplemented ==
  op = "create_from_prompter_assistant_interplay"
  => outcome = [kind |-> "raise", exc |-> "NotImplementedError"]

====
